---- MODULE Spec2Model ----
(***************************************************************************)
(* Model of src/main.rs: splitter_with_rayon and splitter_no_deps.         *)
(*                                                                         *)
(* One behaviour is one pair of calls on the same input and the same       *)
(* transform f, splitter_with_rayon first and splitter_no_deps second, in  *)
(* the order of the two tests.  The dispatcher (the caller's thread) and   *)
(* every worker thread of splitter_no_deps take interleaved steps.         *)
(*                                                                         *)
(* TRESHOLD is the constant 100 in the source.  Inputs of 100 and more     *)
(* elements are out of reach of exhaustive enumeration, so the model keeps *)
(* the threshold as a value fixed at Init and checks every value           *)
(* 1..MaxThreshold.  The code never reads the value, only compares input   *)
(* length with it and hands it to chunks / par_chunks.                     *)
(***************************************************************************)
EXTENDS Integers, Sequences, FiniteSets, TLC

\* ---------------------------------------------------------------- bounds
MaxLen == 4
MaxThreshold == 3
\* The longest input of the specification with fairness.
MaxLiveLen == 3

\* The element type T and the result type R are generic; two values each.
Values == {"a", "b"}
Results == {"x", "y"}
\* The outcome of f(v) when the transform panics.
Panic == "PANIC"

Thresholds == 1..MaxThreshold

Min(a, b) == IF a < b THEN a ELSE b

VARIABLES
    input,      \* input: Vec<T>
    f,          \* f: fn(T) -> R, a panic is the value Panic
    TRESHOLD,   \* const TRESHOLD
    \* --- splitter_with_rayon
    rpc,        \* "start" | "par" | "returned" | "panicked"
    rparts,     \* par_chunks: chunk number -> [st: "todo" | "ok" | "panic", val]
    rres,       \* the Vec<R> collected
    \* --- splitter_no_deps, the caller's thread
    pc,         \* "start" | "seq" | "dispatch" (loop head) | "send" | "drop"
                \* | "join" (second loop) | "returned" | "panicked"
    pos,        \* sequential path: elements mapped so far
    off,        \* input.chunks(TRESHOLD): elements the iterator has yielded
    chunk,      \* the loop variable chunk
    handles,    \* handles: Vec<JoinHandle>, a handle is the worker's number
    h,          \* second loop: handles joined so far
    res,        \* res: Vec<R>
    \* --- splitter_no_deps, the workers
    thr,        \* worker number -> [st, base, ch, data, out, joined]: st is
                \* "spawned" | "locked" | "running" | "done" | "panicked",
                \* base the input offset of its chunk, ch the channel whose
                \* receiver its closure owns, joined: join() has returned
    chan,       \* channel number -> [queue, tx, rx, mutex, holder]: the
                \* channel and the Mutex around its receiver, mutex is
                \* "free" | "held" | "poisoned", holder the worker holding it
    applied     \* input index -> number of invocations of f on it (no_deps)

vars == <<input, f, TRESHOLD, rpc, rparts, rres, pc, pos, off, chunk,
          handles, h, res, thr, chan, applied>>

rayonVars == <<rpc, rparts, rres>>
callerVars == <<pc, pos, off, chunk, handles, h, res>>
fixedVars == <<input, f, TRESHOLD>>

\* ------------------------------------------------------- pure functions

\* All sequences over S of length 0..n.
SeqsUpTo(S, n) == UNION {[1..k -> S] : k \in 0..n}

\* Mutant of ChunkLen: chunks of one element whatever the threshold.
ChunkLenOne(remaining, t) == Min(1, remaining)

\* Mutant of ChunkLen: a chunk one element longer than the threshold.
ChunkLenOver(remaining, t) == Min(t + 1, remaining)

\* std slice::Chunks::next: the length of the next chunk of a slice with
\* `remaining` elements left.
ChunkLen(remaining, t) == Min(t, remaining)

\* The sizes of the chunks input.chunks(t) yields for an input of n elements.
RECURSIVE ChunkSizes(_, _)
ChunkSizes(n, t) ==
    IF n = 0 THEN <<>>
    ELSE <<ChunkLen(n, t)>> \o ChunkSizes(n - ChunkLen(n, t), t)

\* chunk.iter().map(|v| f(v.clone())).collect::<Vec<R>>(): a panic when f
\* panics on an element, the mapped vector otherwise.
MapF(s) ==
    IF \E n \in 1..Len(s) : f[s[n]] = Panic
    THEN [st |-> "panic", val |-> <<>>]
    ELSE [st |-> "ok", val |-> [n \in 1..Len(s) |-> f[s[n]]]]

\* flat_map(..).collect(): the parts in chunk order.
RECURSIVE Flatten(_)
Flatten(parts) ==
    IF parts = <<>> THEN <<>>
    ELSE Head(parts).val \o Flatten(Tail(parts))

\* input.par_chunks(t): chunk j (from 1) of the slice.
ParChunk(s, t, j) == SubSeq(s, (j - 1) * t + 1, Min(j * t, Len(s)))
ParChunkCount(s, t) == (Len(s) + t - 1) \div t

\* ----------------------------------------------------------------- Init
Init ==
    /\ input \in SeqsUpTo(Values, MaxLen)
    /\ f \in [Values -> Results \cup {Panic}]
    /\ TRESHOLD \in Thresholds
    /\ rpc = "start"
    /\ rparts = <<>>
    /\ rres = <<>>
    /\ pc = "start"
    /\ pos = 0
    /\ off = 0
    /\ chunk = <<>>
    /\ handles = <<>>
    /\ h = 0
    /\ res = <<>>
    /\ thr = <<>>
    /\ chan = <<>>
    /\ applied = [n \in 1..Len(input) |-> 0]

\* -------------------------------------------------- splitter_with_rayon

\* if input.len() < TRESHOLD { sequential map } else { par_chunks ... }
RayonCall ==
    /\ rpc = "start"
    /\ IF Len(input) < TRESHOLD
       THEN /\ rpc' = IF MapF(input).st = "panic" THEN "panicked" ELSE "returned"
            /\ rres' = MapF(input).val
            /\ rparts' = rparts
       ELSE /\ rpc' = "par"
            /\ rparts' = [j \in 1..ParChunkCount(input, TRESHOLD) |->
                                [st |-> "todo", val |-> <<>>]]
            /\ rres' = rres
    /\ UNCHANGED <<fixedVars, callerVars, thr, chan, applied>>

\* The pool maps one chunk; the pool picks the order.
RayonChunk(j) ==
    /\ rpc = "par"
    /\ j \in 1..Len(rparts)
    /\ rparts[j].st = "todo"
    /\ rparts' = [rparts EXCEPT ![j] = MapF(ParChunk(input, TRESHOLD, j))]
    /\ UNCHANGED <<fixedVars, rpc, rres, callerVars, thr, chan, applied>>

\* Mutant of RayonCollect: the parts collected last chunk first.
RayonCollectReversed ==
    /\ rpc = "par"
    /\ \A j \in 1..Len(rparts) : rparts[j].st # "todo"
    /\ IF \E j \in 1..Len(rparts) : rparts[j].st = "panic"
       THEN rpc' = "panicked" /\ rres' = rres
       ELSE rpc' = "returned" /\
            rres' = Flatten([j \in 1..Len(rparts) |->
                                rparts[Len(rparts) + 1 - j]])
    /\ UNCHANGED <<fixedVars, rparts, callerVars, thr, chan, applied>>

\* collect(): the parts in chunk order; a panic of any part is the call's.
RayonCollect ==
    /\ rpc = "par"
    /\ \A j \in 1..Len(rparts) : rparts[j].st # "todo"
    /\ IF \E j \in 1..Len(rparts) : rparts[j].st = "panic"
       THEN rpc' = "panicked" /\ rres' = rres
       ELSE rpc' = "returned" /\ rres' = Flatten(rparts)
    /\ UNCHANGED <<fixedVars, rparts, callerVars, thr, chan, applied>>

\* ----------------------------------------- splitter_no_deps, the caller

\* Mutant of Call: <= for <, an input of exactly TRESHOLD elements is mapped
\* in the caller.
CallInclusive ==
    /\ pc = "start"
    /\ rpc \in {"returned", "panicked"}
    /\ pc' = IF Len(input) <= TRESHOLD THEN "seq" ELSE "dispatch"
    /\ UNCHANGED <<fixedVars, rayonVars, pos, off, chunk, handles, h, res,
                   thr, chan, applied>>

\* Mutant of Call: the empty input is sent down the concurrent path.
CallNonEmpty ==
    /\ pc = "start"
    /\ rpc \in {"returned", "panicked"}
    /\ pc' = IF 0 < Len(input) /\ Len(input) < TRESHOLD
             THEN "seq" ELSE "dispatch"
    /\ UNCHANGED <<fixedVars, rayonVars, pos, off, chunk, handles, h, res,
                   thr, chan, applied>>

\* if input.len() < TRESHOLD { ... } else { handles = vec![]; res = vec![] }
Call ==
    /\ pc = "start"
    /\ rpc \in {"returned", "panicked"}
    /\ pc' = IF Len(input) < TRESHOLD THEN "seq" ELSE "dispatch"
    /\ UNCHANGED <<fixedVars, rayonVars, pos, off, chunk, handles, h, res,
                   thr, chan, applied>>

\* input.iter().map(|v| f(v.clone())): one element, in the caller's thread.
SeqApply ==
    /\ pc = "seq"
    /\ pos < Len(input)
    /\ applied' = [applied EXCEPT ![pos + 1] = @ + 1]
    /\ IF f[input[pos + 1]] = Panic
       THEN /\ pc' = "panicked"
            /\ res' = <<>>
            /\ pos' = pos
       ELSE /\ pc' = pc
            /\ res' = Append(res, f[input[pos + 1]])
            /\ pos' = pos + 1
    /\ UNCHANGED <<fixedVars, rayonVars, off, chunk, handles, h, thr, chan>>

\* .collect() of the sequential path: the value of the call.
SeqReturn ==
    /\ pc = "seq"
    /\ pos = Len(input)
    /\ pc' = "returned"
    /\ UNCHANGED <<fixedVars, rayonVars, pos, off, chunk, handles, h, res,
                   thr, chan, applied>>

\* Mutant of NewThread: every closure captures the first channel's receiver
\* (the channel made once, outside the loop).
NewThreadSharedRx(base) ==
    [st |-> "spawned", base |-> base, ch |-> 1, data |-> <<>>,
     out |-> <<>>, joined |-> FALSE]

\* A new worker, about to lock: its closure owns syncable, the receiver of
\* the channel this iteration made.
NewThread(base) ==
    [st |-> "spawned", base |-> base, ch |-> Len(chan) + 1, data |-> <<>>,
     out |-> <<>>, joined |-> FALSE]
\* channel::<Vec<T>>() and Arc::new(Mutex::new(rx)): empty, both ends
\* alive, the mutex free.
NewChannel ==
    [queue |-> <<>>, tx |-> TRUE, rx |-> TRUE, mutex |-> "free", holder |-> 0]

\* Mutant of Spawn: the iterator steps one element short of the chunk it
\* yielded, so consecutive chunks share an element.
SpawnOverlap ==
    /\ pc = "dispatch"
    /\ off < Len(input)
    /\ LET n == ChunkLen(Len(input) - off, TRESHOLD) IN
         /\ chunk' = SubSeq(input, off + 1, off + n)
         /\ off' = IF n > 1 THEN off + n - 1 ELSE off + n
    /\ chan' = Append(chan, NewChannel)
    /\ thr' = Append(thr, NewThread(off))
    /\ handles' = Append(handles, Len(thr) + 1)
    /\ pc' = "send"
    /\ UNCHANGED <<fixedVars, rayonVars, pos, h, res, applied>>

\* Loop head and body up to handles.push(thread::spawn(..)): the iterator
\* yields the next chunk, the channel is made, the worker is spawned.
Spawn ==
    /\ pc = "dispatch"
    /\ off < Len(input)
    /\ LET n == ChunkLen(Len(input) - off, TRESHOLD) IN
         /\ chunk' = SubSeq(input, off + 1, off + n)
         /\ off' = off + n
    /\ chan' = Append(chan, NewChannel)
    /\ thr' = Append(thr, NewThread(off))
    /\ handles' = Append(handles, Len(thr) + 1)
    /\ pc' = "send"
    /\ UNCHANGED <<fixedVars, rayonVars, pos, h, res, applied>>

\* Mutant of Send: the send is left out, the loop goes on to drop tx.
SendLost ==
    /\ pc = "send"
    /\ pc' = "drop"
    /\ UNCHANGED <<fixedVars, rayonVars, pos, off, chunk, handles, h, res,
                   thr, chan, applied>>

\* Mutant of Send: the dispatcher looks at the workers spawned so far and
\* fails in the loop when one of them has panicked.
SendChecksWorkers ==
    /\ pc = "send"
    /\ LET j == Len(chan) IN
         IF chan[j].rx /\ \A k \in 1..Len(thr) : thr[k].st # "panicked"
         THEN /\ chan' = [chan EXCEPT ![j].queue = Append(@, chunk)]
              /\ pc' = "drop"
         ELSE /\ chan' = chan
              /\ pc' = "panicked"
    /\ UNCHANGED <<fixedVars, rayonVars, pos, off, chunk, handles, h, res,
                   thr, applied>>

\* tx.send(chunk.to_vec()).unwrap(): Err when the receiver is gone.
Send ==
    /\ pc = "send"
    /\ LET j == Len(chan) IN
         IF chan[j].rx
         THEN /\ chan' = [chan EXCEPT ![j].queue = Append(@, chunk)]
              /\ pc' = "drop"
         ELSE /\ chan' = chan
              /\ pc' = "panicked"
    /\ UNCHANGED <<fixedVars, rayonVars, pos, off, chunk, handles, h, res,
                   thr, applied>>

\* End of the loop body: tx goes out of scope.
DropTx ==
    /\ pc = "drop"
    /\ chan' = [chan EXCEPT ![Len(chan)].tx = FALSE]
    /\ pc' = "dispatch"
    /\ UNCHANGED <<fixedVars, rayonVars, pos, off, chunk, handles, h, res,
                   thr, applied>>

\* Mutant of EndLoop: the first loop may end before the iterator does.
EndLoopEarly ==
    /\ pc = "dispatch"
    /\ Len(handles) >= 1
    /\ pc' = "join"
    /\ UNCHANGED <<fixedVars, rayonVars, pos, off, chunk, handles, h, res,
                   thr, chan, applied>>

\* The iterator is exhausted: the first loop ends, the second begins.
EndLoop ==
    /\ pc = "dispatch"
    /\ off = Len(input)
    /\ pc' = "join"
    /\ UNCHANGED <<fixedVars, rayonVars, pos, off, chunk, handles, h, res,
                   thr, chan, applied>>

\* Mutant of Join: the next worker's output is taken without waiting for
\* the worker to end.
JoinNoWait ==
    /\ pc = "join"
    /\ h < Len(handles)
    /\ LET j == handles[h + 1] IN
         /\ thr' = [thr EXCEPT ![j].joined = TRUE]
         /\ IF thr[j].st # "panicked"
            THEN /\ res' = res \o thr[j].out
                 /\ h' = h + 1
                 /\ pc' = pc
            ELSE /\ res' = <<>>
                 /\ h' = h
                 /\ pc' = "panicked"
    /\ UNCHANGED <<fixedVars, rayonVars, pos, off, chunk, handles, chan,
                   applied>>

\* Mutant of Join: any worker that has ended is joined and merged, in the
\* order of completion.
JoinAny ==
    /\ pc = "join"
    /\ h < Len(handles)
    /\ \E j \in 1..Len(thr) :
         /\ ~thr[j].joined
         /\ thr[j].st \in {"done", "panicked"}
         /\ thr' = [thr EXCEPT ![j].joined = TRUE]
         /\ IF thr[j].st = "done"
            THEN /\ res' = res \o thr[j].out
                 /\ h' = h + 1
                 /\ pc' = pc
            ELSE /\ res' = <<>>
                 /\ h' = h
                 /\ pc' = "panicked"
    /\ UNCHANGED <<fixedVars, rayonVars, pos, off, chunk, handles, chan,
                   applied>>

\* Mutant of Join: the Err of a panicked worker is skipped, not unwrapped.
JoinIgnorePanic ==
    /\ pc = "join"
    /\ h < Len(handles)
    /\ LET j == handles[h + 1] IN
         /\ thr[j].st \in {"done", "panicked"}
         /\ thr' = [thr EXCEPT ![j].joined = TRUE]
         /\ res' = IF thr[j].st = "done" THEN res \o thr[j].out ELSE res
         /\ h' = h + 1
         /\ pc' = pc
    /\ UNCHANGED <<fixedVars, rayonVars, pos, off, chunk, handles, chan,
                   applied>>

\* let mut v = h.join().unwrap(); res.append(&mut v): the next handle in
\* the order of handles; join blocks until the worker has ended, gives Err
\* when it panicked, and the unwrap panics: res and the handles left are
\* dropped, which detaches their workers.
Join ==
    /\ pc = "join"
    /\ h < Len(handles)
    /\ LET j == handles[h + 1] IN
         /\ thr[j].st \in {"done", "panicked"}
         /\ thr' = [thr EXCEPT ![j].joined = TRUE]
         /\ IF thr[j].st = "done"
            THEN /\ res' = res \o thr[j].out
                 /\ h' = h + 1
                 /\ pc' = pc
            ELSE /\ res' = <<>>
                 /\ h' = h
                 /\ pc' = "panicked"
    /\ UNCHANGED <<fixedVars, rayonVars, pos, off, chunk, handles, chan,
                   applied>>

\* res: the value of the call.
Return ==
    /\ pc = "join"
    /\ h = Len(handles)
    /\ pc' = "returned"
    /\ UNCHANGED <<fixedVars, rayonVars, pos, off, chunk, handles, h, res,
                   thr, chan, applied>>

\* ---------------------------------------- splitter_no_deps, the workers

\* The channel of worker j after the worker's end: the guard it holds is
\* dropped (a panic poisons the mutex) and so are its closure and the
\* receiver the closure owns.
Release(j, st) ==
    [chan EXCEPT
        ![thr[j].ch].rx = FALSE,
        ![thr[j].ch].mutex = IF chan[thr[j].ch].holder # j THEN @
                             ELSE IF st = "panicked" THEN "poisoned"
                             ELSE "free",
        ![thr[j].ch].holder = IF @ = j THEN 0 ELSE @]

\* The worker's end before it has a chunk.
EndThread(j, st) ==
    /\ chan' = Release(j, st)
    /\ thr' = [thr EXCEPT ![j].st = st]

\* syncable.lock().unwrap(): blocks while another thread holds the mutex;
\* Err when it is poisoned, and the unwrap panics.
Lock(j) ==
    /\ j \in 1..Len(thr)
    /\ thr[j].st = "spawned"
    /\ chan[thr[j].ch].mutex # "held"
    /\ IF chan[thr[j].ch].mutex = "free"
       THEN /\ chan' = [chan EXCEPT ![thr[j].ch].mutex = "held",
                                    ![thr[j].ch].holder = j]
            /\ thr' = [thr EXCEPT ![j].st = "locked"]
       ELSE EndThread(j, "panicked")
    /\ UNCHANGED <<fixedVars, rayonVars, callerVars, applied>>

\* Mutant of Recv: a dropped sender is taken for a closed channel although
\* a message is buffered.
RecvNeedsSender(j) ==
    /\ j \in 1..Len(thr)
    /\ thr[j].st = "locked"
    /\ IF chan[thr[j].ch].queue # <<>> /\ chan[thr[j].ch].tx
       THEN /\ thr' = [thr EXCEPT ![j].st = "running",
                                  ![j].data = Head(chan[thr[j].ch].queue)]
            /\ chan' = [chan EXCEPT ![thr[j].ch].queue = Tail(@)]
       ELSE /\ ~chan[thr[j].ch].tx
            /\ EndThread(j, "panicked")
    /\ UNCHANGED <<fixedVars, rayonVars, callerVars, applied>>

\* .recv().unwrap() on the locked receiver: blocks while the channel is
\* empty and the sender alive; Err when it is empty and the sender gone,
\* and the unwrap panics.
Recv(j) ==
    /\ j \in 1..Len(thr)
    /\ thr[j].st = "locked"
    /\ IF chan[thr[j].ch].queue # <<>>
       THEN /\ thr' = [thr EXCEPT ![j].st = "running",
                                  ![j].data = Head(chan[thr[j].ch].queue)]
            /\ chan' = [chan EXCEPT ![thr[j].ch].queue = Tail(@)]
       ELSE /\ ~chan[thr[j].ch].tx
            /\ EndThread(j, "panicked")
    /\ UNCHANGED <<fixedVars, rayonVars, callerVars, applied>>

\* Mutant of Apply: the worker checks a cancellation flag the caller's panic
\* sets, and stops mapping.
ApplyCancellable(j) ==
    /\ pc # "panicked"
    /\ j \in 1..Len(thr)
    /\ thr[j].st = "running"
    /\ LET n == Len(thr[j].out)
           r == f[thr[j].data[n + 1]]
       IN
         /\ applied' = [applied EXCEPT ![thr[j].base + n + 1] = @ + 1]
         /\ IF r = Panic
            THEN /\ thr' = [thr EXCEPT ![j].st = "panicked", ![j].out = <<>>]
                 /\ chan' = Release(j, "panicked")
            ELSE /\ thr' = [thr EXCEPT
                        ![j].st = IF n + 1 = Len(thr[j].data)
                                  THEN "done" ELSE "running",
                        ![j].out = Append(@, r)]
                 /\ chan' = IF n + 1 = Len(thr[j].data)
                            THEN Release(j, "done") ELSE chan
    /\ UNCHANGED <<fixedVars, rayonVars, callerVars>>

\* Mutant of Apply: the chunk is walked from its last element to its first.
ApplyReverse(j) ==
    /\ j \in 1..Len(thr)
    /\ thr[j].st = "running"
    /\ LET n == Len(thr[j].out)
           r == f[thr[j].data[Len(thr[j].data) - n]]
       IN
         /\ applied' = [applied EXCEPT
                            ![thr[j].base + Len(thr[j].data) - n] = @ + 1]
         /\ IF r = Panic
            THEN /\ thr' = [thr EXCEPT ![j].st = "panicked", ![j].out = <<>>]
                 /\ chan' = Release(j, "panicked")
            ELSE /\ thr' = [thr EXCEPT
                        ![j].st = IF n + 1 = Len(thr[j].data)
                                  THEN "done" ELSE "running",
                        ![j].out = <<r>> \o @]
                 /\ chan' = IF n + 1 = Len(thr[j].data)
                            THEN Release(j, "done") ELSE chan
    /\ UNCHANGED <<fixedVars, rayonVars, callerVars>>

\* Mutant of Apply: the result is put in front of the vector, not behind.
ApplyFront(j) ==
    /\ j \in 1..Len(thr)
    /\ thr[j].st = "running"
    /\ LET n == Len(thr[j].out)
           r == f[thr[j].data[n + 1]]
       IN
         /\ applied' = [applied EXCEPT ![thr[j].base + n + 1] = @ + 1]
         /\ IF r = Panic
            THEN /\ thr' = [thr EXCEPT ![j].st = "panicked", ![j].out = <<>>]
                 /\ chan' = Release(j, "panicked")
            ELSE /\ thr' = [thr EXCEPT
                        ![j].st = IF n + 1 = Len(thr[j].data)
                                  THEN "done" ELSE "running",
                        ![j].out = <<r>> \o @]
                 /\ chan' = IF n + 1 = Len(thr[j].data)
                            THEN Release(j, "done") ELSE chan
    /\ UNCHANGED <<fixedVars, rayonVars, callerVars>>

\* .iter().map(|v| f(v.clone())): one element of the worker's chunk; after
\* the last one collect() ends the thread with the vector.
Apply(j) ==
    /\ j \in 1..Len(thr)
    /\ thr[j].st = "running"
    /\ LET n == Len(thr[j].out)
           r == f[thr[j].data[n + 1]]
       IN
         /\ applied' = [applied EXCEPT ![thr[j].base + n + 1] = @ + 1]
         /\ IF r = Panic
            THEN /\ thr' = [thr EXCEPT ![j].st = "panicked", ![j].out = <<>>]
                 /\ chan' = Release(j, "panicked")
            ELSE /\ thr' = [thr EXCEPT
                        ![j].st = IF n + 1 = Len(thr[j].data)
                                  THEN "done" ELSE "running",
                        ![j].out = Append(@, r)]
                 /\ chan' = IF n + 1 = Len(thr[j].data)
                            THEN Release(j, "done") ELSE chan
    /\ UNCHANGED <<fixedVars, rayonVars, callerVars>>

\* ------------------------------------------------------- specification
Next ==
    \/ RayonCall
    \/ \E j \in 1..MaxLen : RayonChunk(j)
    \/ RayonCollect
    \/ Call
    \/ SeqApply
    \/ SeqReturn
    \/ Spawn
    \/ Send
    \/ DropTx
    \/ EndLoop
    \/ Join
    \/ Return
    \/ \E j \in 1..MaxLen : Lock(j)
    \/ \E j \in 1..MaxLen : Recv(j)
    \/ \E j \in 1..MaxLen : Apply(j)

Spec == Init /\ [][Next]_vars

\* The steps of one thread: the rayon call and the caller of
\* splitter_no_deps (one after the other on the same thread), and worker j.
Caller ==
    \/ RayonCall \/ (\E j \in 1..MaxLen : RayonChunk(j)) \/ RayonCollect
    \/ Call \/ SeqApply \/ SeqReturn
    \/ Spawn \/ Send \/ DropTx \/ EndLoop \/ Join \/ Return
Worker(j) == Lock(j) \/ Recv(j) \/ Apply(j)

\* The operating system schedules every thread that can run: the caller's
\* thread and each spawned thread, detached or not, as long as the process
\* lives.
LiveInit == Init /\ Len(input) <= MaxLiveLen

FairSpec ==
    /\ LiveInit
    /\ [][Next]_vars
    /\ WF_vars(Caller)
    /\ \A j \in 1..MaxLen : WF_vars(Worker(j))

\* ------------------------------------------------------------ properties

\* The call took the concurrent path (the else branch of line 47).
Concurrent == Len(input) >= TRESHOLD
\* The chunk worker j was made for: in the loop variable until it is sent,
\* in the channel until the worker receives it, in the worker afterwards.
ChunkHeld(j) ==
    IF thr[j].st \notin {"spawned", "locked"} THEN thr[j].data
    ELSE IF chan[j].queue # <<>> THEN Head(chan[j].queue)
    ELSE chunk

\* The workers' outputs, worker 1 first, up to worker k.
RECURSIVE ConcatOut(_)
ConcatOut(k) == IF k = 0 THEN <<>> ELSE ConcatOut(k - 1) \o thr[k].out

\* C1: a sequence returned by splitter_no_deps or by splitter_with_rayon
\* holds f(input[i]) at every index i of the input, on the sequential and
\* on the concurrent path.
C1_ElementwiseMap ==
    /\ pc = "returned" =>
         \A n \in 1..Len(input) : n <= Len(res) /\ res[n] = f[input[n]]
    /\ rpc = "returned" =>
         \A n \in 1..Len(input) : n <= Len(rres) /\ rres[n] = f[input[n]]

\* A concurrent call of several chunks has returned a sequence in which f
\* took different values.
C1_Witness ==
    /\ pc = "returned"
    /\ rpc = "returned"
    /\ Concurrent
    /\ Len(thr) >= 2
    /\ \E m, n \in 1..Len(res) : res[m] # res[n]

\* C2: on the concurrent path the result is the workers' sub-results in
\* chunk order whatever order the workers received and finished in: while
\* joining, res is the outputs of workers 1..h in that order, and the
\* sequence returned is a function of the input, f and the threshold alone.
C2_ChunkOrderNotCompletionOrder ==
    /\ (Concurrent /\ pc \in {"join", "returned"}) => res = ConcatOut(h)
    /\ (Concurrent /\ pc = "returned") =>
         /\ h = Len(thr)
         /\ res = Flatten([j \in 1..ParChunkCount(input, TRESHOLD) |->
                            MapF(ParChunk(input, TRESHOLD, j))])

\* Worker 3 has finished before worker 2, which is still mapping; worker 1
\* is merged and nothing else is.
C2_Witness ==
    /\ pc = "join"
    /\ Len(thr) >= 3
    /\ h = 1
    /\ res = thr[1].out
    /\ thr[2].st = "running"
    /\ thr[3].st = "done"
    /\ thr[3].out # thr[1].out

\* C3: a sequence returned has the length of the input, on both paths and
\* for every number of chunks.
C3_LengthPreserved ==
    /\ pc = "returned" => Len(res) = Len(input)
    /\ rpc = "returned" => Len(rres) = Len(input)

\* Both calls have returned for an input of several chunks, the last one
\* short.
C3_Witness ==
    /\ pc = "returned"
    /\ rpc = "returned"
    /\ Len(thr) >= 2
    /\ Len(input) % TRESHOLD # 0
    /\ Len(res) = Len(input)

\* C4: whichever path splitter_no_deps took, the sequence it returns is the
\* one the plain in-order map of the input gives, and it is the sequence
\* splitter_with_rayon returns for the same input.
C4_PathEquivalence ==
    /\ pc = "returned" => (MapF(input).st = "ok" /\ res = MapF(input).val)
    /\ rpc = "returned" => (MapF(input).st = "ok" /\ rres = MapF(input).val)
    /\ (pc = "returned" /\ rpc = "returned") => res = rres

\* Both functions have returned on the concurrent path, for several chunks
\* and a result that is not constant.
C4_Witness ==
    /\ pc = "returned"
    /\ rpc = "returned"
    /\ Len(rparts) >= 2
    /\ Len(thr) >= 2
    /\ res = rres
    /\ \E m, n \in 1..Len(res) : res[m] # res[n]

\* C5: an input shorter than the threshold never gets a worker or a channel
\* and is mapped by the caller; an input of the threshold's length or more
\* is never mapped by the caller and has a worker once the loop has run; an
\* input of exactly the threshold's length has one worker, which holds the
\* whole input.
C5_ThresholdBoundary ==
    /\ ~Concurrent =>
         /\ thr = <<>> /\ chan = <<>> /\ handles = <<>>
         /\ pc \in {"start", "seq", "returned", "panicked"}
         /\ \A n \in 1..Len(input) :
              applied[n] = IF n <= pos \/ (n = pos + 1 /\ pc = "panicked")
                           THEN 1 ELSE 0
         /\ pc = "returned" => pos = Len(input)
    /\ Concurrent =>
         /\ pc # "seq" /\ pos = 0
         /\ pc \in {"send", "drop", "join", "returned", "panicked"} =>
              Len(thr) >= 1
         /\ (Len(input) = TRESHOLD /\ pc \in {"join", "returned", "panicked"})
              => (Len(thr) = 1 /\ ChunkHeld(1) = input)

\* An input of exactly the threshold's length (2 or more) has been mapped
\* by its one worker and returned.
C5_Witness ==
    /\ Len(input) = TRESHOLD
    /\ TRESHOLD >= 2
    /\ pc = "returned"
    /\ Len(thr) = 1
    /\ thr[1].data = input

\* The spec's example: threshold 100 and length 250.
Example250 == ChunkSizes(250, 100) = <<100, 100, 50>>

\* C6: on the concurrent path worker j (from 1) is given input elements
\* (j-1)*threshold+1 .. min(j*threshold, len), in order: no overlap, no
\* gap, every chunk but the last of threshold elements and the last of 1 to
\* threshold; once the loop has ended there are ceil(len/threshold) chunks.
C6_ChunksPartitionInput ==
    /\ Example250
    /\ \A j \in 1..Len(thr) :
         /\ thr[j].base = (j - 1) * TRESHOLD
         /\ ChunkHeld(j) =
              SubSeq(input, (j - 1) * TRESHOLD + 1,
                     Min(j * TRESHOLD, Len(input)))
         /\ Len(ChunkHeld(j)) >= 1
         /\ Len(ChunkHeld(j)) <= TRESHOLD
         /\ j < Len(thr) => Len(ChunkHeld(j)) = TRESHOLD
    /\ off = Min(Len(thr) * TRESHOLD, Len(input))
    /\ (Concurrent /\ pc \in {"join", "returned"}) =>
         /\ Len(thr) * TRESHOLD >= Len(input)
         /\ (Len(thr) - 1) * TRESHOLD < Len(input)
         /\ [j \in 1..Len(thr) |-> Len(ChunkHeld(j))]
              = ChunkSizes(Len(input), TRESHOLD)

\* The loop has ended with a chunk of threshold elements and a shorter
\* last chunk, each received by its worker.
C6_Witness ==
    /\ pc = "join"
    /\ Len(thr) = 2
    /\ TRESHOLD >= 2
    /\ Len(thr[1].data) = TRESHOLD
    /\ Len(thr[2].data) >= 1
    /\ Len(thr[2].data) < TRESHOLD

\* The call of splitter_no_deps has ended: it returned or it panicked.
CallEnded == pc \in {"returned", "panicked"}

\* C7: when the call of splitter_no_deps ends, by returning or by
\* panicking, every worker it spawned has ended and has been joined.
C7_NoWorkerOutlivesCall ==
    CallEnded => \A j \in 1..Len(thr) :
                    thr[j].joined /\ thr[j].st \in {"done", "panicked"}

\* f panics on some element of the input.
FFails == \E n \in 1..Len(input) : f[input[n]] = Panic

\* C8: the caller gets the whole result in input order or a failure: a
\* sequence returned has f(input[i]) at every index of the input and
\* nothing more, and the call returns no sequence when f panics on an
\* element of the input or a worker has panicked.
C8_AllOrNothing ==
    /\ pc = "returned" =>
         /\ Len(res) = Len(input)
         /\ \A n \in 1..Len(input) : res[n] = f[input[n]]
    /\ FFails => pc # "returned"
    /\ (\E j \in 1..Len(thr) : thr[j].st = "panicked") => pc # "returned"
    /\ (FFails /\ pc = "join") =>
         \E j \in h + 1..Len(thr) : thr[j].st # "done"

\* The call has failed at the join of a panicked worker after another
\* worker's output was merged.
C8_Witness ==
    /\ pc = "panicked"
    /\ h >= 1
    /\ thr[h].st = "done" /\ thr[h].joined /\ thr[h].out # <<>>
    /\ thr[h + 1].st = "panicked" /\ thr[h + 1].joined

\* C9: the empty input goes down the sequential path of both functions and
\* gives the empty sequence: no worker, no channel, no chunk, no step of
\* the map.
C9_EmptyInput ==
    Len(input) = 0 =>
        /\ pc \in {"start", "seq", "returned"}
        /\ rpc \in {"start", "returned"}
        /\ thr = <<>> /\ chan = <<>> /\ handles = <<>> /\ rparts = <<>>
        /\ pos = 0 /\ off = 0
        /\ res = <<>> /\ rres = <<>>

\* Both functions have returned for the empty input.
C9_Witness ==
    /\ Len(input) = 0
    /\ pc = "returned"
    /\ rpc = "returned"
    /\ res = <<>>

\* The chunk of worker j has been sent and its sender dropped.
Sent(j) ==
    /\ ~chan[j].tx
    /\ chan[j].queue # <<>> \/ thr[j].st \notin {"spawned", "locked"}

\* C10: when the first join is attempted every worker of the call has been
\* spawned and sent its chunk, and the workers joined are at every moment
\* the first ones in the order of creation: worker j before worker j+1.
C10_FanOutBeforeFanIn ==
    /\ (pc = "join" \/ \E j \in 1..Len(thr) : thr[j].joined) =>
         /\ off = Len(input)
         /\ Len(thr) = ParChunkCount(input, TRESHOLD)
         /\ \A j \in 1..Len(thr) : Sent(j)
    /\ handles = [j \in 1..Len(thr) |-> j]
    /\ \A j \in 1..Len(thr) :
         thr[j].joined <=>
            (j <= h \/ (j = h + 1 /\ pc = "panicked" /\ thr[j].st = "panicked"))

\* Two of three workers are joined in the order of creation, the third is
\* not yet.
C10_Witness ==
    /\ pc = "join"
    /\ Len(thr) = 3
    /\ h = 2
    /\ thr[1].joined /\ thr[2].joined /\ ~thr[3].joined

\* Worker j has ended: its closure returned or panicked.
Ended(j) == thr[j].st \in {"done", "panicked"}
\* Worker j is live: spawned and not ended.
Live(j) == ~Ended(j)

\* C11 as claimed: once a worker's sub-result is merged into res, every
\* worker of the call has ended.
C11_MergeOnlyAfterAllEnded ==
    (pc = "join" /\ h >= 1) => \A j \in 1..Len(thr) : Ended(j)

\* C11 as amended: a sub-result is merged only when its own worker has
\* ended without a panic and every worker before it is merged, whatever the
\* workers after it are doing; res never holds part of a worker's output,
\* and the call returns only when every worker has ended.
C11_MergeAfterOwnWorkerEnded ==
    /\ \A j \in 1..Len(thr) :
         (j <= h) => (thr[j].st = "done" /\ thr[j].joined
                      /\ Len(thr[j].out) = Len(thr[j].data))
    /\ (Concurrent /\ pc \in {"join", "returned"}) => res = ConcatOut(h)
    /\ pc \notin {"join", "returned"} => res = <<>> \/ ~Concurrent
    /\ (Concurrent /\ pc = "returned") => \A j \in 1..Len(thr) : Ended(j)

\* Worker 1 is merged while worker 2 has not even locked its receiver.
C11_Witness ==
    /\ pc = "join"
    /\ Len(thr) = 2
    /\ h = 1
    /\ res = thr[1].out /\ res # <<>>
    /\ thr[2].st = "spawned"

\* The input indices of the chunk worker j was made for.
ChunkIndices(j) == thr[j].base + 1 .. thr[j].base + Len(ChunkHeld(j))

\* C12: worker j owns channel j and its mutex and nobody else does: at most
\* one message ever goes through the channel, it is chunk j, the chunks of
\* two workers share no input index, the mutex is free when its worker comes
\* to lock it, and a worker that cannot step is waiting in recv for the
\* dispatcher to send its own chunk.
C12_OneChunkPerWorker ==
    /\ Len(chan) = Len(thr)
    /\ \A j \in 1..Len(thr) :
         /\ thr[j].ch = j
         /\ chan[j].holder \in {0, j}
         /\ thr[j].st = "spawned" =>
              (chan[j].mutex = "free" /\ chan[j].holder = 0)
         /\ thr[j].st \in {"locked", "running"} =>
              (chan[j].mutex = "held" /\ chan[j].holder = j)
         /\ Len(chan[j].queue) <= 1
         /\ chan[j].queue # <<>> =>
              (thr[j].st \in {"spawned", "locked"} /\ thr[j].data = <<>>)
         /\ thr[j].st \in {"running", "done"} =>
              thr[j].data = ParChunk(input, TRESHOLD, j)
         /\ (thr[j].st = "locked" /\ chan[j].queue = <<>>) =>
              (pc = "send" /\ j = Len(thr) /\ chan[j].tx)
         /\ \A k \in 1..Len(thr) :
              k # j => ChunkIndices(j) \cap ChunkIndices(k) = {}

\* Two workers hold their own chunks at the same time, both mapping.
C12_Witness ==
    /\ Len(thr) >= 2
    /\ thr[1].st = "running" /\ thr[2].st = "running"
    /\ TRESHOLD >= 2
    /\ thr[1].data = ParChunk(input, TRESHOLD, 1)
    /\ thr[2].data = ParChunk(input, TRESHOLD, 2)
    /\ chan[1].holder = 1 /\ chan[2].holder = 2

\* The number of workers of the call that are live.
LiveCount == Cardinality({j \in 1..Len(thr) : Live(j)})

\* C13: a concurrent call never has more than ceil(n/t) workers, live or
\* not, and has spawned exactly ceil(n/t) when the first loop has ended.
C13_WorkerCount ==
    /\ Len(thr) <= ParChunkCount(input, TRESHOLD)
    /\ LiveCount <= ParChunkCount(input, TRESHOLD)
    /\ ~Concurrent => Len(thr) = 0
    /\ (Concurrent /\ pc \in {"join", "returned", "panicked"}) =>
         Len(thr) = ParChunkCount(input, TRESHOLD)

\* All ceil(n/t) workers of a call, one for each element of the longest
\* input, are live at the same time: nothing caps the number lower.
C13_Witness ==
    /\ Len(input) = MaxLen
    /\ pc = "join"
    /\ Len(thr) = ParChunkCount(input, TRESHOLD)
    /\ Len(thr) = MaxLen
    /\ LiveCount = Len(thr)

\* The chunk of worker j has been sent to it.
Dispatched(j) ==
    /\ j \in 1..Len(thr)
    /\ chan[j].queue # <<>> \/ thr[j].st \in {"running", "done", "panicked"}

\* The number of elements at the front of s that f is applied to: up to and
\* including the first one f panics on, all of them when there is none.
RECURSIVE Reach(_)
Reach(s) ==
    IF s = <<>> THEN 0
    ELSE IF f[Head(s)] = Panic THEN 1
    ELSE 1 + Reach(Tail(s))

\* C14 as claimed, in the form a finite run refutes: a worker that was sent
\* its chunk does not end before it has applied f to every element of it.
C14_EndedWorkerMappedWholeChunk ==
    \A j \in 1..Len(thr) :
        (Dispatched(j) /\ Ended(j)) =>
            (thr[j].st = "done" /\
             \A n \in ChunkIndices(j) : applied[n] >= 1)

\* Worker j has ended with f applied, once each, to the elements of its
\* chunk up to and including the first on which f panics, to all of them
\* when f panics on none, and then the worker has returned.
Finished(j) ==
    /\ j \in 1..Len(thr)
    /\ Ended(j)
    /\ thr[j].st = "done" <=> MapF(thr[j].data).st = "ok"
    /\ \A n \in ChunkIndices(j) :
         applied[n] = IF n <= thr[j].base + Reach(thr[j].data) THEN 1 ELSE 0

\* C14 as amended: under fair scheduling a worker that was sent its chunk
\* ends, having applied f to the elements of the chunk up to the first on
\* which f itself panics (to all when there is none); neither another
\* worker's panic nor the caller's stops it.
C14_NoCancellation ==
    \A j \in 1..MaxLen : Dispatched(j) ~> Finished(j)

\* The call has failed at the join of worker 1 and a worker after it, left
\* detached, has mapped its whole chunk.
C14_Witness ==
    /\ pc = "panicked"
    /\ Len(thr) >= 2
    /\ thr[1].st = "panicked" /\ thr[1].joined
    /\ thr[2].st = "done" /\ ~thr[2].joined
    /\ Len(thr[2].out) >= 1
    /\ Finished(2)

\* f panics on an element of chunk j of the input.
ChunkFails(j) == MapF(ParChunk(input, TRESHOLD, j)).st = "panic"

\* C15: a worker's panic does not stop the first loop: in the loop the
\* dispatcher always has its next step, and a concurrent call that has
\* failed has spawned all ceil(n/t) workers and sent every chunk.  The call
\* fails at the join of the first worker in creation order whose chunk
\* makes f panic: the workers before it are joined and merged, no worker
\* after it is joined.
C15_FailureObservedAtJoin ==
    /\ pc \in {"dispatch", "send", "drop"} =>
         ENABLED (Spawn \/ Send \/ DropTx \/ EndLoop)
    /\ (Concurrent /\ pc = "panicked") =>
         /\ off = Len(input)
         /\ Len(thr) = ParChunkCount(input, TRESHOLD)
         /\ \A j \in 1..Len(thr) : Dispatched(j) /\ ~chan[j].tx
         /\ h < Len(thr)
         /\ thr[h + 1].st = "panicked" /\ thr[h + 1].joined
         /\ ChunkFails(h + 1)
         /\ \A j \in 1..h :
              thr[j].st = "done" /\ thr[j].joined /\ ~ChunkFails(j)
         /\ \A j \in h + 2..Len(thr) : ~thr[j].joined

\* Workers 2 and 3 of three have panicked; the call has failed at the join
\* of worker 2, after worker 1 was merged, and worker 3 is not joined.
C15_Witness ==
    /\ pc = "panicked"
    /\ Len(thr) = 3
    /\ h = 1
    /\ thr[1].st = "done" /\ thr[1].joined
    /\ thr[2].st = "panicked" /\ thr[2].joined
    /\ thr[3].st = "panicked" /\ ~thr[3].joined

\* Worker j has received a chunk.
Received(j) == j \in 1..Len(thr) /\ thr[j].data # <<>>

\* C16: under fair scheduling a call of splitter_no_deps on which f panics
\* for no element eventually returns; every worker spawned, blocked in recv
\* or not yet there, eventually receives a chunk; and the dispatcher in the
\* join loop eventually leaves it, by the return or by a failed join.
C16_Termination ==
    /\ <>(FFails \/ pc = "returned")
    /\ \A j \in 1..MaxLen : (j \in 1..Len(thr)) ~> Received(j)
    /\ (pc = "join") ~> CallEnded

\* A call of several workers on which f never panics has returned.
C16_Witness ==
    /\ ~FFails
    /\ pc = "returned"
    /\ Len(thr) >= 2
    /\ \A j \in 1..Len(thr) : Received(j) /\ thr[j].joined

\* C17: no unwrap of the handoff fails.  The receiver is alive when the
\* dispatcher sends; the mutex is never poisoned when its worker locks it; a
\* worker in recv has its message buffered or its sender still alive, also
\* after the sender was dropped; the message is the chunk sent, chunk j; a
\* worker panics only with its chunk in hand, on an element f panics on,
\* and the call fails only at f in the caller or at the join of such a
\* worker.
C17_HandoffNeverFails ==
    /\ pc = "send" => chan[Len(chan)].rx
    /\ \A j \in 1..Len(thr) :
         /\ thr[j].st = "spawned" => chan[thr[j].ch].mutex = "free"
         /\ thr[j].st = "locked" =>
              (chan[thr[j].ch].queue # <<>> \/ chan[thr[j].ch].tx)
         /\ chan[j].queue # <<>> =>
              chan[j].queue = <<ParChunk(input, TRESHOLD, j)>>
         /\ thr[j].st \in {"running", "done", "panicked"} =>
              thr[j].data = ParChunk(input, TRESHOLD, j)
         /\ thr[j].st = "panicked" =>
              (thr[j].data # <<>> /\ MapF(thr[j].data).st = "panic")
    /\ pc = "panicked" =>
         IF Concurrent
         THEN /\ h < Len(thr)
              /\ thr[h + 1].st = "panicked" /\ thr[h + 1].joined
              /\ MapF(thr[h + 1].data).st = "panic"
         ELSE f[input[pos + 1]] = Panic

\* Every sender is dropped and worker 1, holding its lock, has yet to
\* receive the chunk buffered in its channel.
C17_Witness ==
    /\ pc = "join"
    /\ Len(thr) >= 2
    /\ thr[1].st = "locked"
    /\ ~chan[1].tx
    /\ chan[1].queue = <<ParChunk(input, TRESHOLD, 1)>>
    /\ thr[2].st = "running"

\* C18: f is never invoked twice on an input index, by the caller or by any
\* worker, and a call that returns has invoked it once on every index; the
\* indices invoked are at every moment the first ones of the input (in the
\* caller) or of each chunk (in its worker), so that the invocations within
\* a chunk go up the indices; no index outside the chunks handed out is
\* touched.
C18_ExactlyOnce ==
    /\ \A n \in 1..Len(input) : applied[n] <= 1
    /\ pc = "returned" => \A n \in 1..Len(input) : applied[n] = 1
    /\ ~Concurrent =>
         \A n \in 1..Len(input) :
            applied[n] = 1 <=> (n <= pos \/ (n = pos + 1 /\ pc = "panicked"))
    /\ Concurrent =>
         /\ \A n \in 1..Len(input) : n > off => applied[n] = 0
         /\ \A j \in 1..Len(thr) :
              \A k \in 1..Len(ChunkHeld(j)) :
                 applied[thr[j].base + k] = 1 <=>
                    k <= (IF thr[j].st \in {"running", "done"}
                          THEN Len(thr[j].out)
                          ELSE IF thr[j].st = "panicked"
                          THEN Reach(thr[j].data)
                          ELSE 0)

\* A call of two workers with chunks of two elements has returned with f
\* invoked once on each index.
C18_Witness ==
    /\ pc = "returned"
    /\ Len(thr) = 2
    /\ TRESHOLD = 2
    /\ Len(thr[2].data) = 2
    /\ \A n \in 1..Len(input) : applied[n] = 1

====
